---- MODULE Spec2Model ----
(***************************************************************************)
(* Call-signaling core of src/lib/webrtc-service.ts.                       *)
(*                                                                         *)
(* The module-level variables of the service are the state.  Every         *)
(* handler is cut at its awaits: one action runs one handler from an       *)
(* await (or from its entry) to its next await, as the JavaScript event    *)
(* loop does.  Code that runs inside one such segment is composed as       *)
(* operators on a record s of all variables (Cur), so that a helper such   *)
(* as endVoiceCall is the same operator wherever the code calls it.        *)
(*                                                                         *)
(* The RTCPeerConnection is modelled by its observable contract: the       *)
(* signalingState, the presence of the two descriptions, and an operations *)
(* chain whose entries settle in order.  signalingState changes when an    *)
(* operation settles, not when it is invoked.  close() drops the chain:    *)
(* a promise pending on a closed connection never settles.                 *)
(***************************************************************************)
EXTENDS Integers, Sequences, FiniteSets, TLC

\* ------------------------------------------------------------------ bounds
MaxCalls == 2
MaxPeers == 2
MaxTasks == 3
\* how many events of each kind the environment produces in one behaviour
MaxDials == 1
MaxSelfDials == 1
MaxPushes == 2
MaxCallStates == 1
MaxEnds == 2
MaxFaults == 1
MaxOffers == 1
MaxAnswerCalls == 1
MaxRejects == 1
MaxCands == 2
\* how many environment events in all: general, outbound-only, reject-only
MaxEvents == 3
MaxOutEvents == 6
MaxRejEvents == 4
MaxDupEvents == 4
MaxRedialEvents == 5
MaxMuteEvents == 4

\* -------------------------------------------------------- program constants
PollAttempts == 30

VARIABLES
  isVoipInitialized,      \* also stands for currentDeviceId / currentLoyaltyId
  pc,                     \* 0 = null, else index into peers
  localStream,            \* 0 = null, else index of the peer it was acquired with
  remoteStream,           \* 0 = null, else index of the peer whose track it is
  activeCallUUID,         \* 0 = null
  activeCallStartedAt,    \* 0 = null
  currentCallState,
  callerName,             \* 0 = null, else the name that came with that call id
  isMuted,
  queuedIceCandidates,
  peers,                  \* every RTCPeerConnection created, with its stream
  tasks,                  \* async handlers suspended at an await
  graceTimers,            \* pending setTimeout(2000) callbacks of rejectCall
  relay,                  \* what the backend has received / holds
  ui,                     \* what the registered callbacks were told
  calls,                  \* direction of every call id in existence
  quota                   \* remaining environment events

vars == << isVoipInitialized, pc, localStream, remoteStream, activeCallUUID,
           activeCallStartedAt, currentCallState, callerName, isMuted,
           queuedIceCandidates, peers, tasks, graceTimers, relay, ui, calls,
           quota >>

CallIds == 1..MaxCalls
TaskIds == 1..MaxTasks

Cur ==
  [ isVoipInitialized |-> isVoipInitialized, pc |-> pc,
    localStream |-> localStream, remoteStream |-> remoteStream,
    activeCallUUID |-> activeCallUUID,
    activeCallStartedAt |-> activeCallStartedAt,
    currentCallState |-> currentCallState, callerName |-> callerName,
    isMuted |-> isMuted, queuedIceCandidates |-> queuedIceCandidates,
    peers |-> peers, tasks |-> tasks, graceTimers |-> graceTimers,
    relay |-> relay, ui |-> ui, calls |-> calls, quota |-> quota ]

Set(s) ==
  /\ isVoipInitialized' = s.isVoipInitialized
  /\ pc' = s.pc
  /\ localStream' = s.localStream
  /\ remoteStream' = s.remoteStream
  /\ activeCallUUID' = s.activeCallUUID
  /\ activeCallStartedAt' = s.activeCallStartedAt
  /\ currentCallState' = s.currentCallState
  /\ callerName' = s.callerName
  /\ isMuted' = s.isMuted
  /\ queuedIceCandidates' = s.queuedIceCandidates
  /\ peers' = s.peers
  /\ tasks' = s.tasks
  /\ graceTimers' = s.graceTimers
  /\ relay' = s.relay
  /\ ui' = s.ui
  /\ calls' = s.calls
  /\ quota' = s.quota

\* ------------------------------------------------------------------ tasks
Free ==
  [ kind |-> "free", at |-> "", callId |-> 0, peer |-> 0, i |-> 0,
    list |-> << >>, ret |-> "", par |-> 0, tmo |-> FALSE, lis |-> FALSE ]

NewTask(kind, at, callId) ==
  [ Free EXCEPT !.kind = kind, !.at = at, !.callId = callId ]

HasFree(s, n) == Cardinality({ t \in TaskIds : s.tasks[t].kind = "free" }) >= n

FreeTid(s) ==
  CHOOSE t \in TaskIds :
    /\ s.tasks[t].kind = "free"
    /\ \A u \in TaskIds : s.tasks[u].kind = "free" => t <= u

Park(s, t, rec) == [ s EXCEPT !.tasks[t] = rec ]
Finish(s, t) == [ s EXCEPT !.tasks[t] = Free ]

\* --------------------------------------------------------------- callbacks
\* onCallStateChange?.(state, name): the UI learns the state; answered
\* notifications are counted for the call that is active when they fire,
\* a notification that reports what the previous one reported is noted,
\* and the last two reports are kept.
onCallStateChange(s, st, name) ==
  [ s EXCEPT !.ui.state = st, !.ui.name = name,
             !.ui.last = st, !.ui.prev = s.ui.last,
             !.ui.repeated = @ \/ s.ui.last = st,
             !.ui.nAnswered[s.activeCallUUID] =
                 IF st = "answered" THEN @ + 1 ELSE @ ]

\* onCallActiveChange?.(isActive, startedAt)
onCallActiveChange(s, isActive, startedAt) ==
  [ s EXCEPT !.ui.active = isActive, !.ui.startedAt = startedAt,
             !.ui.nActive[s.activeCallUUID] =
                 IF isActive THEN @ + 1 ELSE @ ]

\* Date.now(): a later reading differs from the stored one.
DateNow(s) == IF s.activeCallStartedAt = 1 THEN 2 ELSE 1

\* --------------------------------------------------- RTCPeerConnection
NewPeer(callId, role) ==
  [ call |-> callId, role |-> role, sig |-> "stable",
    remote |-> FALSE, local |-> FALSE, chain |-> << >>,
    mic |-> "live", enabled |-> TRUE, rtrack |-> "none",
    connected |-> FALSE,
    sraInvoked |-> 0, sraApplied |-> 0, applied |-> << >>,
    drained |-> << >> ]

\* pc.<op>(...): the operation joins the chain; task t awaits its promise.
Invoke(s, p, op, t, arg) ==
  [ s EXCEPT !.peers[p].chain = Append(@, [ op |-> op, tid |-> t, arg |-> arg ]),
             !.peers[p].sraInvoked = IF op = "setRemoteAnswer" THEN @ + 1 ELSE @ ]

\* Whether connection p accepts the operation in its signaling state.  A
\* local description is accepted only by the connection that created it
\* (arg); any other is rejected with InvalidModificationError.
Accepts(p, peer, op, arg) ==
  CASE op = "createOffer"      -> peer.sig \in { "stable", "have-local-offer" }
    [] op = "setLocalOffer"    -> peer.sig \in { "stable", "have-local-offer" } /\ arg = p
    [] op = "setRemoteOffer"   -> peer.sig \in { "stable", "have-remote-offer" }
    [] op = "createAnswer"     -> peer.sig = "have-remote-offer"
    [] op = "setLocalAnswer"   -> peer.sig = "have-remote-offer" /\ arg = p
    [] op = "setRemoteAnswer"  -> peer.sig = "have-local-offer"
    [] op = "addIceCandidate"  -> peer.remote

\* The effect of an accepted operation on the connection.
Apply(peer, op, arg) ==
  CASE op = "setLocalOffer"    -> [ peer EXCEPT !.sig = "have-local-offer", !.local = TRUE ]
    [] op = "setRemoteOffer"   -> [ peer EXCEPT !.sig = "have-remote-offer", !.remote = TRUE ]
    [] op = "setLocalAnswer"   -> [ peer EXCEPT !.sig = "stable", !.local = TRUE ]
    [] op = "setRemoteAnswer"  -> [ peer EXCEPT !.sig = "stable", !.remote = TRUE,
                                                !.sraApplied = @ + 1 ]
    [] op = "addIceCandidate"  -> [ peer EXCEPT !.applied = Append(@, arg) ]
    [] OTHER                   -> peer

\* pc.close() that leaves the pending promises to settle later.
ClosePeerKeepsPending(s, p) == [ s EXCEPT !.peers[p].sig = "closed" ]

\* pc.close(): the connection is closed and the promises pending on it
\* never settle, so the handlers awaiting them never run again.
ClosePeer(s, p) ==
  LET waiting == { s.peers[p].chain[k].tid : k \in 1..Len(s.peers[p].chain) }
  IN  [ s EXCEPT !.peers[p].sig = "closed", !.peers[p].chain = << >>,
                 !.tasks = [ t \in TaskIds |->
                               IF t \in waiting THEN Free ELSE @[t] ] ]

\* ------------------------------------------------------------ endVoiceCall
\* endVoiceCall that drops localStream without stopping its tracks.
endVoiceCallKeepsMic(s) ==
  LET s1 == [ s EXCEPT !.queuedIceCandidates = << >> ]
      s2 == IF s1.pc # 0
              THEN [ ClosePeer(s1, s1.pc) EXCEPT !.pc = 0 ]
              ELSE s1
      s3 == [ s2 EXCEPT !.localStream = 0 ]
      s4 == IF s3.remoteStream # 0
              THEN [ s3 EXCEPT !.peers[s3.remoteStream].rtrack = "stopped",
                               !.remoteStream = 0 ]
              ELSE s3
      s5 == IF s4.activeCallUUID # 0 /\ s4.isVoipInitialized
              THEN [ s4 EXCEPT !.relay.ends[s4.activeCallUUID] = @ + 1 ]
              ELSE s4
      s6 == [ s5 EXCEPT !.activeCallUUID = 0, !.activeCallStartedAt = 0,
                        !.currentCallState = "idle", !.callerName = 0 ]
  IN  onCallActiveChange(onCallStateChange(s6, "idle", 0), FALSE, 0)

endVoiceCall(s) ==
  LET s1 == [ s EXCEPT !.queuedIceCandidates = << >> ]
      s2 == IF s1.pc # 0
              THEN [ ClosePeer(s1, s1.pc) EXCEPT !.pc = 0 ]
              ELSE s1
      s3 == IF s2.localStream # 0
              THEN [ s2 EXCEPT !.peers[s2.localStream].mic = "stopped",
                               !.localStream = 0 ]
              ELSE s2
      s4 == IF s3.remoteStream # 0
              THEN [ s3 EXCEPT !.peers[s3.remoteStream].rtrack = "stopped",
                               !.remoteStream = 0 ]
              ELSE s3
      s5 == IF s4.activeCallUUID # 0 /\ s4.isVoipInitialized
              THEN [ s4 EXCEPT !.relay.ends[s4.activeCallUUID] = @ + 1 ]
              ELSE s4
      s6 == [ s5 EXCEPT !.activeCallUUID = 0, !.activeCallStartedAt = 0,
                        !.currentCallState = "idle", !.callerName = 0 ]
  IN  onCallActiveChange(onCallStateChange(s6, "idle", 0), FALSE, 0)


\* ------------------------------------------------- answered bookkeeping
\* currentCallState = 'answered'; the timer is stamped unconditionally
\* (overwrite) or only when it is not yet set; both callbacks fire.
SetAnswered(s, overwrite) ==
  LET s1 == [ s EXCEPT !.currentCallState = "answered",
                       !.activeCallStartedAt =
                           IF overwrite \/ @ = 0 THEN DateNow(s) ELSE @ ]
  IN  onCallActiveChange(onCallStateChange(s1, "answered", s1.callerName),
                         TRUE, s1.activeCallStartedAt)

\* ------------------------------------------- processQueuedIceCandidates
IsParked(s, t) == s.tasks[t].at = "drain"

\* The for-loop of processQueuedIceCandidates: an entry is handed to the
\* engine (and the loop awaits it) only if pc and its remote description
\* exist at that moment; otherwise the entry is skipped.
RECURSIVE DrainLoop(_, _, _)
DrainLoop(s, t, list) ==
  IF list = << >> THEN s
  ELSE IF s.pc # 0 /\ s.peers[s.pc].remote
    THEN Park([ Invoke(s, s.pc, "addIceCandidate", t, Head(list).candidate)
                  EXCEPT !.peers[s.pc].drained = Append(@, Head(list).candidate) ],
              t, [ s.tasks[t] EXCEPT !.at = "drain", !.list = Tail(list) ])
    ELSE DrainLoop(s, t, Tail(list))

\* processQueuedIceCandidates without line 46: the entries stay queued.
processQueuedKeepsEntries(s, t, callId) ==
  IF s.pc = 0 \/ ~s.peers[s.pc].remote THEN s
  ELSE LET candidatesToProcess ==
             SelectSeq(s.queuedIceCandidates, LAMBDA c : c.callId = callId)
       IN  IF candidatesToProcess = << >> THEN s
           ELSE DrainLoop(s, t, candidatesToProcess)

processQueuedIceCandidates(s, t, callId) ==
  IF s.pc = 0 \/ ~s.peers[s.pc].remote THEN s
  ELSE LET candidatesToProcess ==
             SelectSeq(s.queuedIceCandidates, LAMBDA c : c.callId = callId)
       IN  IF candidatesToProcess = << >> THEN s
           ELSE DrainLoop(
                  [ s EXCEPT !.queuedIceCandidates =
                       SelectSeq(@, LAMBDA c : c.callId # callId) ],
                  t, candidatesToProcess)

\* --------------------------------------------------------- startVoiceCall
\* Entry of startVoiceCall up to `await getUserMedia`.
startVoiceCall(s, t, rec) ==
  LET s1 == IF s.pc # 0 THEN endVoiceCall(s) ELSE s
  IN  Park(s1, t, rec)

\* After getUserMedia resolved: the stream and a fresh connection replace
\* whatever localStream and pc referred to.  With a remote offer the
\* function awaits setRemoteDescription; without one it returns.
startVoiceCallGotMedia(s, t) ==
  LET p  == Len(s.peers) + 1
      withOffer == s.tasks[t].kind # "dial"
      s1 == [ s EXCEPT !.peers = Append(@, NewPeer(s.tasks[t].callId,
                                   IF withOffer THEN "callee" ELSE "caller")),
                       !.localStream = p, !.pc = p ]
  IN  IF withOffer
        THEN Park(Invoke(s1, p, "setRemoteOffer", t, 0), t,
                  [ s1.tasks[t] EXCEPT !.at = "setRemoteOffer", !.peer = p ])
        ELSE [ s1 EXCEPT !.activeCallUUID = s.tasks[t].callId,
                         !.tasks[t].peer = p ]

\* ------------------------------------------------------------ waitForAnswer
\* waitForAnswerHTTP up to its first sleep.
waitForAnswerHTTP(s, u, callId, par) ==
  IF s.pc = 0 THEN s
  ELSE Park(s, u, [ NewTask("poll", "sleep", callId) EXCEPT
                      !.peer = s.pc, !.i = 0, !.par = par ])

\* waitForAnswer: arms the timeout, registers onAnswer, starts the poll.
waitForAnswer(s, t, u) ==
  LET s1 == Park(s, t, [ s.tasks[t] EXCEPT !.at = "wait", !.peer = s.pc,
                                           !.tmo = TRUE, !.lis = TRUE ])
  IN  waitForAnswerHTTP(s1, u, s.tasks[t].callId, t)

\* The catch block of startOutgoingVoiceCallByLoyaltyId (lines 669-673).
dialCatch(s, t) == Finish(endVoiceCall(s), t)

\* onAnswer without its look at signalingState: the Answer goes to the engine
\* whatever state the session is in.
onAnswerUnguarded(s, t, callId) ==
  IF callId = s.tasks[t].callId /\ s.tasks[t].peer = s.pc /\ s.pc # 0
    THEN LET s1 == [ s EXCEPT !.tasks[t].tmo = FALSE, !.tasks[t].lis = FALSE ]
         IN  Park(Invoke(s1, s1.pc, "setRemoteAnswer", t, 0), t,
                  [ s1.tasks[t] EXCEPT !.at = "oaSetRemote",
                                       !.ret = "onAnswerOk" ])
    ELSE s

\* onAnswer, the listener waitForAnswer registers, up to its first await.
onAnswer(s, t, callId) ==
  IF callId = s.tasks[t].callId /\ s.tasks[t].peer = s.pc /\ s.pc # 0
    THEN LET s1 == [ s EXCEPT !.tasks[t].tmo = FALSE, !.tasks[t].lis = FALSE ]
             sig == s.peers[s.pc].sig
         IN  IF sig = "stable"
               THEN Finish(IF s1.currentCallState # "answered"
                             THEN SetAnswered(s1, FALSE) ELSE s1, t)
             ELSE IF sig = "have-local-offer"
               THEN Park(Invoke(s1, s1.pc, "setRemoteAnswer", t, 0), t,
                         [ s1.tasks[t] EXCEPT !.at = "oaSetRemote",
                                              !.ret = "onAnswerOk" ])
             ELSE dialCatch(s1, t)
    ELSE s

\* ------------------------------------------------------ sendAnswerToBackend
\* The catch block of answerCall (lines 1128-1144): no teardown.
answerCallCatch(s, t) ==
  Finish(onCallStateChange([ s EXCEPT !.currentCallState = "idle" ], "idle", 0), t)

\* sendAnswerToBackend up to its first fetch (the call-info lookup).
sendAnswerToBackend(s, t) ==
  IF ~s.isVoipInitialized THEN answerCallCatch(s, t)
  ELSE Park(s, t, [ s.tasks[t] EXCEPT !.at = "saInfo" ])

\* answerCall from `if (!pc.localDescription)` (line 1090) on.
answerCallCreate(s, t) ==
  IF s.pc = 0 THEN answerCallCatch(s, t)
  ELSE IF ~s.peers[s.pc].local
    THEN IF ~s.peers[s.pc].remote
           THEN answerCallCatch(s, t)
           ELSE Park(Invoke(s, s.pc, "createAnswer", t, 0), t,
                     [ s.tasks[t] EXCEPT !.at = "createAnswer", !.peer = s.pc ])
    ELSE sendAnswerToBackend(s, t)

\* answerCall from `if (!pc)` (line 1065) on.
answerCallReady(s, t) ==
  IF s.pc = 0 THEN answerCallCatch(s, t)
  ELSE IF ~s.peers[s.pc].remote
    THEN Park(s, t, [ s.tasks[t] EXCEPT !.at = "acFetchOffer2" ])
    ELSE answerCallCreate(s, t)

\* The catch block of socket.on('offer') (lines 173-178).
offerCatch(s, t) ==
  LET s1 == [ s EXCEPT !.currentCallState = "idle", !.activeCallUUID = 0 ]
  IN  Finish(onCallStateChange(s1, "idle", 0), t)

\* startVoiceCall threw: the caller's catch block runs.
startVoiceCallThrew(s, t) ==
  CASE s.tasks[t].kind = "offer"      -> offerCatch(s, t)
    [] s.tasks[t].kind = "answerCall" -> answerCallCatch(s, t)
    [] OTHER                          -> Finish(s, t)

\* ----------------------------------------- code that follows a drain
Post(s, t) ==
  LET ret == s.tasks[t].ret
  IN  CASE ret \in { "gAnswerOk", "onAnswerOk", "pollOk" } ->
             Finish(SetAnswered(s, TRUE), t)
        [] ret = "gAnswerReconcile" ->
             Finish(SetAnswered(s, FALSE), t)
        [] ret = "startVoiceCall" ->
             \* line 596, then back in the caller
             LET s1 == [ s EXCEPT !.activeCallUUID = s.tasks[t].callId ]
             IN  IF s.tasks[t].kind = "answerCall"
                   THEN Park(s1, t, [ s1.tasks[t] EXCEPT !.at = "sleep200" ])
                   ELSE Finish(s1, t)
        [] ret = "answerCall" -> answerCallCreate(s, t)
        [] OTHER -> Finish(s, t)

\* `await processQueuedIceCandidates(callId)` followed by the caller's code.
AwaitDrain(s, t, callId, ret) ==
  LET s1 == processQueuedIceCandidates(
              [ s EXCEPT !.tasks[t].at = "run", !.tasks[t].ret = ret ],
              t, callId)
  IN  IF IsParked(s1, t) THEN s1 ELSE Post(s1, t)

\* An addIceCandidate of a drain settled (its outcome is absorbed by the
\* try/catch of the loop): the loop goes on.
drainResume(s, t) ==
  LET s1 == DrainLoop([ s EXCEPT !.tasks[t].at = "run" ], t, s.tasks[t].list)
  IN  IF IsParked(s1, t) THEN s1 ELSE Post(s1, t)

\* ------------------------------- startOutgoingVoiceCallByLoyaltyId
\* startOutgoingVoiceCallByLoyaltyId without the check of lines 609-616.
dialUnchecked(s, callId) ==
  LET s1 == [ s EXCEPT !.calls[callId] = "out",
                       !.activeCallUUID = callId,
                       !.currentCallState = "calling",
                       !.callerName = callId ]
  IN  startVoiceCall(onCallStateChange(s1, "calling", callId),
                     FreeTid(s), NewTask("dial", "gum", callId))

\* Entry up to the await inside startVoiceCall.
startOutgoingVoiceCallByLoyaltyId(s, callId) ==
  IF ~s.isVoipInitialized THEN s
  ELSE LET s1 == [ s EXCEPT !.calls[callId] = "out",
                            !.activeCallUUID = callId,
                            !.currentCallState = "calling",
                            !.callerName = callId ]
       IN  startVoiceCall(onCallStateChange(s1, "calling", callId),
                          FreeTid(s), NewTask("dial", "gum", callId))

\* The identities a call can be placed to: this client's own loyalty id
\* and another user's.
Users == { "self", "peer" }

\* handleCallUser without the comparison of lines 187-190.
handleCallUserAnyTarget(s, target, callId) ==
  startOutgoingVoiceCallByLoyaltyId(s, callId)

\* handleCallUser of the page, from the comparison of the target with the
\* local loyalty id on.  The page has initialized the service when it was
\* mounted (lines 49-63), and the target can be reached.
handleCallUser(s, target, callId) ==
  IF target = "self" THEN s
  ELSE startOutgoingVoiceCallByLoyaltyId(s, callId)

\* The continuations of the dial after each of its awaits.
dialResume(s, t, res) ==
  LET at == s.tasks[t].at
      callId == s.tasks[t].callId
  IN  CASE at = "gum" ->
             IF res = "ok"
               THEN LET s1 == startVoiceCallGotMedia(s, t)
                    IN  Park(Invoke(s1, s1.pc, "createOffer", t, 0), t,
                             [ s1.tasks[t] EXCEPT !.at = "createOffer" ])
               ELSE Finish(s, t)
        [] at = "createOffer" ->
             IF res = "ok" /\ s.pc # 0
               THEN Park(Invoke(s, s.pc, "setLocalOffer", t, s.tasks[t].peer), t,
                         [ s.tasks[t] EXCEPT !.at = "setLocal" ])
               ELSE Finish(s, t)
        [] at = "setLocal" ->
             IF res = "ok" /\ s.pc # 0
               THEN Park([ s EXCEPT !.relay.offered[callId] = TRUE ], t,
                         [ s.tasks[t] EXCEPT !.at = "post" ])
               ELSE Finish(s, t)
        [] at = "post" ->
             IF res = "ok" /\ s.pc # 0
               THEN waitForAnswer(s, t, FreeTid(s))
               ELSE dialCatch(s, t)
        [] at = "oaSetRemote" ->
             IF res = "ok" THEN AwaitDrain(s, t, callId, "onAnswerOk")
             ELSE IF res = "wrongstate"
               THEN Finish(SetAnswered(s, FALSE), t)
               ELSE dialCatch(s, t)
        [] OTHER -> s


\* ----------------------------------------- socket.on('answer') (global)
\* The global listener up to its first await.
answerHandler(s, callId) ==
  IF s.pc # 0 /\ s.activeCallUUID = callId
    THEN LET sig == s.peers[s.pc].sig
             answerAlreadySet == sig = "stable"
             shouldProcess ==
               \/ s.currentCallState \in { "calling", "ringing" }
               \/ (s.currentCallState = "answered" /\ ~answerAlreadySet)
             t == FreeTid(s)
             rec == [ NewTask("gAnswer", "run", callId) EXCEPT !.peer = s.pc ]
         IN  IF ~shouldProcess THEN s
             ELSE IF sig = "have-local-offer"
               THEN Park(Invoke(s, s.pc, "setRemoteAnswer", t, 0), t,
                         [ rec EXCEPT !.at = "setRemote" ])
             ELSE IF answerAlreadySet
               THEN AwaitDrain(Park(s, t, rec), t, callId, "gAnswerReconcile")
             ELSE Park(Invoke(s, s.pc, "setRemoteAnswer", t, 0), t,
                       [ rec EXCEPT !.at = "setRemoteRetry" ])
    ELSE s

\* The continuations of the global listener.
answerHandlerResume(s, t, res) ==
  LET at == s.tasks[t].at
      callId == s.tasks[t].callId
  IN  CASE at = "setRemote" ->
             IF s.pc = 0 THEN Finish(s, t)
             ELSE IF res = "ok"
               THEN AwaitDrain(s, t, callId, "gAnswerOk")
             ELSE IF res = "wrongstate" /\ s.peers[s.pc].sig = "stable"
               THEN AwaitDrain(s, t, callId, "gAnswerReconcile")
             ELSE Finish(s, t)
        [] at = "setRemoteRetry" ->
             IF res = "ok"
               THEN AwaitDrain(s, t, callId, "gAnswerReconcile")
               ELSE Finish(s, t)
        [] OTHER -> s

\* ------------------------------------------------------ waitForAnswerHTTP
\* End of one iteration of the poll loop: i++ and the next sleep, or return.
pollNext(s, t) ==
  IF s.tasks[t].i + 1 < PollAttempts
    THEN Park(s, t, [ s.tasks[t] EXCEPT !.at = "sleep", !.i = @ + 1 ])
    ELSE Finish(s, t)

\* The continuations of the poll loop.
pollResume(s, t, res) ==
  LET at == s.tasks[t].at
      callId == s.tasks[t].callId
      currentPc == s.tasks[t].peer
  IN  CASE at = "sleep" ->
             IF currentPc # s.pc \/ s.activeCallUUID = 0
               THEN Finish(s, t)
               ELSE Park(s, t, [ s.tasks[t] EXCEPT !.at = "fetch" ])
        [] at = "fetch" ->
             IF res = "ok" /\ s.relay.answer[callId] /\ currentPc = s.pc
               THEN LET sig == s.peers[currentPc].sig
                    IN  IF sig = "have-local-offer"
                          THEN Park(Invoke(s, currentPc, "setRemoteAnswer", t, 0), t,
                                    [ s.tasks[t] EXCEPT !.at = "pollSetRemote" ])
                        ELSE IF sig = "stable"
                          THEN Finish(SetAnswered(s, FALSE), t)
                        ELSE pollNext(s, t)
               ELSE pollNext(s, t)
        [] at = "pollSetRemote" ->
             IF res = "ok" THEN AwaitDrain(s, t, callId, "pollOk")
             ELSE IF res = "wrongstate"
               THEN Finish(SetAnswered(s, FALSE), t)
               ELSE pollNext(s, t)
        [] OTHER -> s

\* ------------------------------------------------- socket.on('call-state')
\* The listener without the comparison of line 126: answered is taken for
\* whatever call it names.
callStateHandlerAnyCall(s, callId, state, direction) ==
  IF state = "ringing" /\ direction = "incoming"
    THEN LET s1 == [ s EXCEPT !.activeCallUUID = callId,
                              !.currentCallState = "ringing",
                              !.callerName = callId ]
         IN  onCallStateChange(s1, "ringing", callId)
  ELSE IF state = "answered"
    THEN SetAnswered([ s EXCEPT !.activeCallUUID =
                                   IF @ = 0 THEN callId ELSE @ ], FALSE)
  ELSE IF state \in { "ended", "rejected" }
    THEN LET s1 == [ s EXCEPT !.currentCallState = state ]
         IN  endVoiceCall(onCallStateChange(s1, state, s1.callerName))
  ELSE s

callStateHandler(s, callId, state, direction) ==
  IF state = "ringing" /\ direction = "incoming"
    THEN LET s1 == [ s EXCEPT !.activeCallUUID = callId,
                              !.currentCallState = "ringing",
                              !.callerName = callId ]
         IN  onCallStateChange(s1, "ringing", callId)
  ELSE IF state = "answered"
    THEN IF s.activeCallUUID = callId \/ s.activeCallUUID = 0
           THEN SetAnswered([ s EXCEPT !.activeCallUUID = callId ], FALSE)
           ELSE s
  ELSE IF state \in { "ended", "rejected" }
    THEN LET s1 == [ s EXCEPT !.currentCallState = state ]
         IN  endVoiceCall(onCallStateChange(s1, state, s1.callerName))
  ELSE s

\* ----------------------------------------------- socket.on('ice-candidate')
\* tid 0 in the chain entry: nothing follows the await but logging.
iceCandidateHandler(s, callId, candidate) ==
  IF s.pc # 0 /\ s.activeCallUUID = callId
    THEN IF ~s.peers[s.pc].remote
           THEN [ s EXCEPT !.queuedIceCandidates =
                     Append(@, [ callId |-> callId, candidate |-> candidate ]) ]
           ELSE Invoke(s, s.pc, "addIceCandidate", 0, candidate)
    ELSE s

\* ----------------------------------------------------- socket.on('offer')
offerHandler(s, callId) ==
  IF s.pc = 0 \/ s.activeCallUUID # callId
    THEN LET s1 == [ s EXCEPT !.calls[callId] = "in",
                              !.activeCallUUID = callId,
                              !.currentCallState = "ringing",
                              !.callerName = callId ]
         IN  startVoiceCall(onCallStateChange(s1, "ringing", callId),
                            FreeTid(s), NewTask("offer", "gum", callId))
    ELSE s

\* The continuations of startVoiceCall(callId, offer, 'callee'), shared by
\* the offer listener and answerCall.
calleeSetupResume(s, t, res) ==
  LET at == s.tasks[t].at
  IN  CASE at = "gum" ->
             IF res = "ok" THEN startVoiceCallGotMedia(s, t)
             ELSE startVoiceCallThrew(s, t)
        [] at = "setRemoteOffer" ->
             IF res = "ok"
               THEN AwaitDrain(s, t, s.tasks[t].callId, "startVoiceCall")
               ELSE startVoiceCallThrew(s, t)
        [] OTHER -> s

\* -------------------------------------------------------------- answerCall
\* Entry of answerCall up to its first await.
answerCall(s, callUUID) ==
  LET t == FreeTid(s)
      s1 == Park(s, t, NewTask("answerCall", "run", callUUID))
  IN  IF s.pc = 0 \/ s.activeCallUUID # callUUID
        THEN Park(s1, t, [ s1.tasks[t] EXCEPT !.at = "acFetchOffer" ])
        ELSE answerCallReady(s1, t)

\* GET /api/calls/{id} returns an offer: the relay was sent one by this
\* client's dial, or it is the offer of an inbound call.
RelayHasOffer(s, callId) ==
  s.calls[callId] = "in" \/ s.relay.offered[callId]

\* The continuations of answerCall.
answerCallResume(s, t, res) ==
  LET at == s.tasks[t].at
      callUUID == s.tasks[t].callId
  IN  CASE at = "acFetchOffer" ->
             IF res = "ok" /\ RelayHasOffer(s, callUUID)
               THEN LET s1 == [ s EXCEPT !.activeCallUUID = callUUID,
                                         !.currentCallState = "ringing" ]
                    IN  startVoiceCall(
                          onCallStateChange(s1, "ringing", s1.callerName),
                          t, [ s1.tasks[t] EXCEPT !.at = "gum" ])
               ELSE answerCallCatch(s, t)
        [] at \in { "gum", "setRemoteOffer" } -> calleeSetupResume(s, t, res)
        [] at = "sleep200" -> answerCallReady(s, t)
        [] at = "acFetchOffer2" ->
             IF res = "failed" THEN answerCallCatch(s, t)
             ELSE IF res = "ok" /\ RelayHasOffer(s, callUUID)
               THEN IF s.pc = 0 THEN answerCallCatch(s, t)
                    ELSE Park(Invoke(s, s.pc, "setRemoteOffer", t, 0), t,
                              [ s.tasks[t] EXCEPT !.at = "acSetRemote" ])
             ELSE answerCallCreate(s, t)
        [] at = "acSetRemote" ->
             IF res = "ok" THEN AwaitDrain(s, t, callUUID, "answerCall")
             ELSE answerCallCatch(s, t)
        [] at = "createAnswer" ->
             IF res = "ok" /\ s.pc # 0
               THEN Park(Invoke(s, s.pc, "setLocalAnswer", t, s.tasks[t].peer), t,
                         [ s.tasks[t] EXCEPT !.at = "setLocalAnswer" ])
               ELSE answerCallCatch(s, t)
        [] at = "setLocalAnswer" ->
             IF res = "ok" THEN sendAnswerToBackend(s, t)
             ELSE answerCallCatch(s, t)
        [] at = "saInfo" ->
             \* the lookup's outcome only decides the extra socket emit;
             \* the Answer is POSTed to the relay
             Park([ s EXCEPT !.relay.answers[callUUID] = @ + 1 ], t,
                  [ s.tasks[t] EXCEPT !.at = "saPost" ])
        [] at = "saPost" ->
             IF res = "ok" THEN Finish(SetAnswered(s, TRUE), t)
             ELSE answerCallCatch(s, t)
        [] OTHER -> s

\* -------------------------------------------------------------- rejectCall
\* After the relay was notified (or at once when no device is registered):
\* teardown, then the 2 s timer is armed.
rejectCallCleanup(s) ==
  [ endVoiceCall(s) EXCEPT !.graceTimers = @ + 1 ]

\* rejectCall without its request to the relay.
rejectCallSilent(s, callUUID) ==
  LET s1 == [ s EXCEPT !.currentCallState = "rejected" ]
  IN  rejectCallCleanup(onCallStateChange(s1, "rejected", s1.callerName))

\* Entry of rejectCall up to its await.
rejectCall(s, callUUID) ==
  LET s1 == [ s EXCEPT !.currentCallState = "rejected" ]
      s2 == onCallStateChange(s1, "rejected", s1.callerName)
  IN  IF s2.isVoipInitialized
        THEN Park([ s2 EXCEPT !.relay.rejects[callUUID] = @ + 1 ], FreeTid(s),
                  NewTask("reject", "rejFetch", callUUID))
        ELSE rejectCallCleanup(s2)

rejectCallResume(s, t, res) == rejectCallCleanup(Finish(s, t))

\* The callback of rejectCall's setTimeout(2000).
graceTimeout(s) ==
  LET s1 == [ s EXCEPT !.currentCallState = "idle", !.callerName = 0,
                       !.activeCallUUID = 0, !.graceTimers = @ - 1 ]
  IN  onCallStateChange(s1, "idle", 0)

\* --------------------------------------- peer.onconnectionstatechange
\* connectionState became 'connected' on connection p, created for
\* peers[p].call (the callUUID the closure captured).
onconnectionstatechange(s, p) ==
  LET s0 == [ s EXCEPT !.peers[p].connected = TRUE ]
  IN  IF s0.currentCallState \in { "ringing", "calling" }
        THEN LET s1 == [ s0 EXCEPT
                           !.currentCallState = "answered",
                           !.activeCallStartedAt =
                              IF @ = 0 /\ s0.activeCallUUID = s0.peers[p].call
                                THEN DateNow(s0) ELSE @ ]
             IN  onCallActiveChange(
                   onCallStateChange(s1, "answered", s1.callerName),
                   TRUE, s1.activeCallStartedAt)
        ELSE s0

\* peer.ontrack: fired while a remote description is applied.
ontrack(s, p) ==
  [ s EXCEPT !.remoteStream = p, !.peers[p].rtrack = "live" ]

\* -------------------------------------------------------------- toggleMute
toggleMute(s) ==
  IF s.localStream # 0
    THEN [ s EXCEPT !.isMuted = ~@,
                    !.peers[s.localStream].enabled = s.isMuted ]
    ELSE s

\* ------------------------------------------------------------- dispatch
\* Dispatch in which a failed addIceCandidate ends the drain loop and the
\* handler that awaits it.
ResumeDrainAborts(s, t, res) ==
  IF s.tasks[t].at = "drain"
    THEN IF res = "ok" THEN drainResume(s, t) ELSE Finish(s, t)
  ELSE CASE s.tasks[t].kind = "dial"    -> dialResume(s, t, res)
         [] s.tasks[t].kind = "gAnswer" -> answerHandlerResume(s, t, res)
         [] s.tasks[t].kind = "poll"    -> pollResume(s, t, res)
         [] s.tasks[t].kind = "offer"   -> calleeSetupResume(s, t, res)
         [] s.tasks[t].kind = "answerCall" -> answerCallResume(s, t, res)
         [] s.tasks[t].kind = "reject"  -> rejectCallResume(s, t, res)
         [] OTHER -> s

Resume(s, t, res) ==
  IF s.tasks[t].at = "drain" THEN drainResume(s, t)
  ELSE CASE s.tasks[t].kind = "dial"    -> dialResume(s, t, res)
         [] s.tasks[t].kind = "gAnswer" -> answerHandlerResume(s, t, res)
         [] s.tasks[t].kind = "poll"    -> pollResume(s, t, res)
         [] s.tasks[t].kind = "offer"   -> calleeSetupResume(s, t, res)
         [] s.tasks[t].kind = "answerCall" -> answerCallResume(s, t, res)
         [] s.tasks[t].kind = "reject"  -> rejectCallResume(s, t, res)
         [] OTHER -> s

\* The environment may still produce an event of this kind.
Can(what) == quota[what] > 0 /\ quota.total > 0

Spend(s, what) == [ s EXCEPT !.quota[what] = @ - 1, !.quota.total = @ - 1 ]

\* =================================================================== actions
\* initWebRTCWithLoyaltyId
InitWebRTC ==
  /\ ~isVoipInitialized
  /\ isVoipInitialized' = TRUE
  /\ UNCHANGED << pc, localStream, remoteStream, activeCallUUID,
                  activeCallStartedAt, currentCallState, callerName, isMuted,
                  queuedIceCandidates, peers, tasks, graceTimers, relay, ui,
                  calls, quota >>

\* The user dials: a fresh call id is generated.
Dial ==
  /\ Can("dial")
  /\ HasFree(Cur, 1)
  /\ \E c \in CallIds :
       /\ calls[c] = "none"
       /\ \A d \in CallIds : calls[d] = "none" => c <= d
       /\ Set(startOutgoingVoiceCallByLoyaltyId(Spend(Cur, "dial"), c))

\* The user presses the call button of a user in the list.
CallUser ==
  \E target \in Users, c \in CallIds :
    /\ isVoipInitialized
    /\ Can(IF target = "self" THEN "self" ELSE "dial")
    /\ HasFree(Cur, 1)
    /\ calls[c] = "none"
    /\ \A d \in CallIds : calls[d] = "none" => c <= d
    /\ Set(handleCallUser(
             Spend(Cur, IF target = "self" THEN "self" ELSE "dial"), target, c))

\* getUserMedia settles.
MediaStep ==
  \E t \in TaskIds, res \in { "ok", "denied" } :
    /\ tasks[t].at = "gum"
    /\ res = "ok" => Len(peers) < MaxPeers
    /\ res # "ok" => Can("fault")
    /\ Set(Resume(IF res = "ok" THEN Cur ELSE Spend(Cur, "fault"), t, res))

\* The head of a connection's operations chain settles; the handler that
\* awaits it continues in the same turn of the event loop.
EngineStep ==
  \E p \in 1..Len(peers), fault \in BOOLEAN :
    /\ peers[p].chain # << >>
    /\ fault => Can("fault")
    /\ LET e   == Head(peers[p].chain)
           ok  == ~fault /\ Accepts(p, peers[p], e.op, e.arg)
           res == IF fault THEN "other" ELSE IF ok THEN "ok" ELSE "wrongstate"
           s0  == IF fault THEN Spend(Cur, "fault") ELSE Cur
           s1  == [ s0 EXCEPT !.peers[p] =
                      [ (IF ok THEN Apply(@, e.op, e.arg) ELSE @)
                          EXCEPT !.chain = Tail(@) ] ]
           s2  == IF ok /\ e.op \in { "setRemoteOffer", "setRemoteAnswer" }
                    THEN ontrack(s1, p) ELSE s1
       IN  Set(IF e.tid = 0 THEN s2 ELSE Resume(s2, e.tid, res))

\* A fetch settles.
FetchStep ==
  \E t \in TaskIds, res \in { "ok", "failed" } :
    /\ tasks[t].at \in { "post", "fetch", "acFetchOffer", "acFetchOffer2",
                         "saInfo", "saPost", "rejFetch" }
    /\ res # "ok" => Can("fault") /\ tasks[t].at \notin { "saInfo", "rejFetch" }
    /\ (tasks[t].at = "post" /\ res = "ok" /\ pc # 0) => HasFree(Cur, 1)
    /\ Set(Resume(IF res = "ok" THEN Cur ELSE Spend(Cur, "fault"), t, res))

\* answerCall's 200 ms sleep ends.
SleepStep ==
  \E t \in TaskIds :
    /\ tasks[t].at = "sleep200"
    /\ Set(Resume(Cur, t, "ok"))

\* The connection of an open peer is established: both descriptions are
\* set, and the far end has this end's Answer if this end is the callee.
ConnectionStep ==
  \E p \in 1..Len(peers) :
    /\ peers[p].sig = "stable" /\ peers[p].remote /\ peers[p].local
    /\ ~peers[p].connected
    /\ peers[p].role = "callee" => relay.answers[peers[p].call] > 0
    /\ Set(onconnectionstatechange(Cur, p))

\* The 30 s timer of waitForAnswer is still armed for the dial that
\* started poll task t.
TimeoutArmed(t) ==
  /\ tasks[t].par # 0
  /\ tasks[tasks[t].par].kind = "dial"
  /\ tasks[tasks[t].par].callId = tasks[t].callId
  /\ tasks[tasks[t].par].tmo

\* A 1 s sleep of the poll loop ends.  The 30th sleep ends after the 30 s
\* timer that was armed before the first one.
PollWake ==
  \E t \in TaskIds :
    /\ tasks[t].kind = "poll" /\ tasks[t].at = "sleep"
    /\ ~(tasks[t].i >= PollAttempts - 1 /\ TimeoutArmed(t))
    /\ Set(Resume(Cur, t, "ok"))

\* The 30 s timer of waitForAnswer fires.  It cannot fire while the poll
\* loop, started together with it, is in one of its first 29 sleeps.
AnswerTimeout ==
  \E t \in TaskIds :
    /\ tasks[t].kind = "dial" /\ tasks[t].tmo
    /\ ~\E u \in TaskIds :
          /\ tasks[u].kind = "poll" /\ tasks[u].par = t
          /\ tasks[u].callId = tasks[t].callId
          /\ tasks[u].at = "sleep" /\ tasks[u].i < PollAttempts - 1
    /\ Set(dialCatch(Cur, t))

\* The callee answers: the relay now holds the Answer of call c.
CalleeAnswers ==
  \E c \in CallIds :
    /\ relay.offered[c] /\ ~relay.answer[c]
    /\ relay' = [ relay EXCEPT !.answer[c] = TRUE ]
    /\ UNCHANGED << isVoipInitialized, pc, localStream, remoteStream,
                    activeCallUUID, activeCallStartedAt, currentCallState,
                    callerName, isMuted, queuedIceCandidates, peers, tasks,
                    graceTimers, ui, calls, quota >>

\* The relay pushes 'answer': the global listener runs, then the onAnswer
\* listener of every dial that is waiting.
RECURSIVE onAnswerAll(_, _, _)
onAnswerAll(s, ts, callId) ==
  IF ts = { } THEN s
  ELSE LET t == CHOOSE x \in ts : \A y \in ts : x <= y
       IN  onAnswerAll(IF s.tasks[t].kind = "dial" /\ s.tasks[t].lis
                         THEN onAnswer(s, t, callId) ELSE s,
                       ts \ { t }, callId)

PushAnswer ==
  \E c \in CallIds :
    /\ isVoipInitialized
    /\ relay.answer[c]
    /\ Can("push")
    /\ HasFree(Cur, 1)
    /\ LET listeners == { t \in TaskIds : tasks[t].kind = "dial" /\ tasks[t].lis }
       IN  Set(onAnswerAll(answerHandler(Spend(Cur, "push"), c), listeners, c))

\* The relay pushes 'call-state' for a call it knows.
PushCallState ==
  \E c \in CallIds, st \in { "answered", "ended", "rejected" } :
    /\ isVoipInitialized
    /\ calls[c] # "none"
    /\ calls[c] = "out" => relay.offered[c]
    /\ st = "answered" => relay.answer[c]
    /\ Can("cstate")
    /\ Set(callStateHandler(Spend(Cur, "cstate"), c, st, "outgoing"))

\* The relay pushes 'call-state' ringing for an inbound call: a new one, or
\* one it has announced before.
PushRinging ==
  \E c \in CallIds :
    /\ isVoipInitialized
    /\ Can("cstate")
    /\ \/ calls[c] = "in"
       \/ calls[c] = "none" /\ \A d \in CallIds : calls[d] = "none" => c <= d
    /\ Set([ callStateHandler(Spend(Cur, "cstate"), c, "ringing", "incoming")
               EXCEPT !.calls[c] = "in" ])

\* The relay pushes 'ice-candidate' with the next candidate of call c: the
\* far end of an outbound call has candidates once it was offered the call.
PushCandidate ==
  \E c \in CallIds :
    /\ isVoipInitialized
    /\ calls[c] # "none"
    /\ calls[c] = "out" => relay.offered[c]
    /\ Can("cand")
    /\ Set(iceCandidateHandler(
             [ Spend(Cur, "cand") EXCEPT !.relay.cands = Append(@, c) ],
             c, Len(relay.cands) + 1))

\* The relay delivers a Candidate it has delivered before (the sender posts
\* each candidate over HTTP and emits it on the socket as well).
RedeliverCandidate ==
  \E k \in 1..Len(relay.cands) :
    /\ isVoipInitialized
    /\ Can("cand")
    /\ Set(iceCandidateHandler(Spend(Cur, "cand"), relay.cands[k], k))

\* The relay pushes 'offer': a new inbound call, or an offer delivered again.
PushOffer ==
  \E c \in CallIds :
    /\ isVoipInitialized
    /\ Can("offer")
    /\ HasFree(Cur, 1)
    /\ \/ calls[c] = "in"
       \/ calls[c] = "none" /\ \A d \in CallIds : calls[d] = "none" => c <= d
    /\ Set(offerHandler(Spend(Cur, "offer"), c))

\* answerCall(callUUID), with the call id the UI holds.
AnswerCall ==
  \E c \in CallIds :
    /\ Can("answer")
    /\ HasFree(Cur, 1)
    /\ calls[c] # "none"
    /\ Set(answerCall(Spend(Cur, "answer"), c))

\* rejectCall(callUUID), with the call id the UI holds.
RejectCall ==
  \E c \in CallIds :
    /\ Can("reject")
    /\ HasFree(Cur, 1)
    /\ calls[c] # "none"
    /\ Set(rejectCall(Spend(Cur, "reject"), c))

\* The 2 s timer of a rejectCall fires.
GraceTimer ==
  /\ graceTimers > 0
  /\ Set(graceTimeout(Cur))

\* toggleMute()
ToggleMute ==
  /\ quota.total > 0
  /\ Set(toggleMute([ Cur EXCEPT !.quota.total = @ - 1 ]))

\* endCall()
EndCall ==
  /\ Can("end")
  /\ Set(endVoiceCall(Spend(Cur, "end")))

\* ===================================================================== Init
InitWith(q) ==
  /\ isVoipInitialized = FALSE
  /\ pc = 0
  /\ localStream = 0
  /\ remoteStream = 0
  /\ activeCallUUID = 0
  /\ activeCallStartedAt = 0
  /\ currentCallState = "idle"
  /\ callerName = 0
  /\ isMuted = FALSE
  /\ queuedIceCandidates = << >>
  /\ peers = << >>
  /\ tasks = [ t \in TaskIds |-> Free ]
  /\ graceTimers = 0
  /\ relay = [ offered |-> [ c \in CallIds |-> FALSE ],
               answer  |-> [ c \in CallIds |-> FALSE ],
               ends    |-> [ c \in CallIds |-> 0 ],
               rejects |-> [ c \in CallIds |-> 0 ],
               answers |-> [ c \in CallIds |-> 0 ],
               cands   |-> << >> ]
  /\ ui = [ state |-> "idle", name |-> 0, active |-> FALSE, startedAt |-> 0,
            last |-> "none", prev |-> "none", repeated |-> FALSE,
            nAnswered |-> [ c \in 0..MaxCalls |-> 0 ],
            nActive   |-> [ c \in 0..MaxCalls |-> 0 ] ]
  /\ calls = [ c \in CallIds |-> "none" ]
  /\ quota = q

\* The events the environment may still produce, by kind and in all.
Quota(d, sd, p, cs, e, f, o, a, r, c, n) ==
  [ dial |-> d, self |-> sd, push |-> p, cstate |-> cs, end |-> e, fault |-> f,
    offer |-> o, answer |-> a, reject |-> r, cand |-> c, total |-> n ]

\* ------------------------------------------- every operation, few events
Init ==
  InitWith(Quota(MaxDials, MaxSelfDials, MaxPushes, MaxCallStates, MaxEnds,
                 MaxFaults, MaxOffers, MaxAnswerCalls, MaxRejects, MaxCands,
                 MaxEvents))

Next ==
  \/ InitWebRTC
  \/ Dial
  \/ CallUser
  \/ MediaStep
  \/ EngineStep
  \/ FetchStep
  \/ SleepStep
  \/ ConnectionStep
  \/ PollWake
  \/ AnswerTimeout
  \/ CalleeAnswers
  \/ PushAnswer
  \/ PushCallState
  \/ PushRinging
  \/ PushCandidate
  \/ PushOffer
  \/ AnswerCall
  \/ RejectCall
  \/ GraceTimer
  \/ EndCall

Spec == Init /\ [][Next]_vars

\* ------------------------------------- outbound calls, more events each
InitOut ==
  InitWith(Quota(MaxDials, 0, MaxPushes, MaxCallStates, MaxEnds, MaxFaults,
                 0, 0, 0, MaxCands, MaxOutEvents))

NextOut ==
  \/ InitWebRTC
  \/ Dial
  \/ MediaStep
  \/ EngineStep
  \/ FetchStep
  \/ ConnectionStep
  \/ PollWake
  \/ AnswerTimeout
  \/ CalleeAnswers
  \/ PushAnswer
  \/ PushCallState
  \/ PushCandidate
  \/ EndCall

SpecOut == InitOut /\ [][NextOut]_vars

\* ----------------------- one outbound call answered through the poll only
\* Timers fire and promises settle: the event loop runs every callback that
\* is due.  The callee answering is the environment's choice.
InitPoll == InitWith(Quota(MaxDials, 0, 0, 0, 0, 0, 0, 0, 0, 0, MaxDials))

NextPoll ==
  \/ InitWebRTC
  \/ Dial
  \/ MediaStep
  \/ EngineStep
  \/ FetchStep
  \/ ConnectionStep
  \/ PollWake
  \/ AnswerTimeout
  \/ CalleeAnswers

SpecPoll ==
  /\ InitPoll /\ [][NextPoll]_vars
  /\ WF_vars(MediaStep) /\ WF_vars(EngineStep) /\ WF_vars(FetchStep)
  /\ WF_vars(PollWake) /\ WF_vars(AnswerTimeout)

\* --------------------------------------- inbound calls that are rejected
InitRej ==
  InitWith(Quota(0, 0, 0, 0, MaxEnds, MaxFaults, MaxOffers, 0,
                 MaxRejects, MaxCands, MaxRejEvents))

NextRej ==
  \/ InitWebRTC
  \/ MediaStep
  \/ EngineStep
  \/ FetchStep
  \/ PushCandidate
  \/ PushOffer
  \/ RejectCall
  \/ GraceTimer
  \/ EndCall

SpecRej ==
  /\ InitRej /\ [][NextRej]_vars
  /\ WF_vars(FetchStep) /\ WF_vars(GraceTimer)

\* ------------------ inbound and outbound calls with redelivered candidates
InitDup ==
  InitWith(Quota(MaxDials, 0, 0, 0, MaxEnds, 0, MaxOffers, 0, 0, MaxCands,
                 MaxDupEvents))

NextDup ==
  \/ InitWebRTC
  \/ Dial
  \/ MediaStep
  \/ EngineStep
  \/ PushOffer
  \/ PushCandidate
  \/ RedeliverCandidate
  \/ EndCall

SpecDup == InitDup /\ [][NextDup]_vars

\* ------------------------- a second dial made while the first is under way
InitRedial ==
  InitWith(Quota(MaxDials + 1, 0, MaxPushes, 0, 0, 0, 0, 0, 0, MaxCands,
                 MaxRedialEvents))

NextRedial ==
  \/ InitWebRTC
  \/ Dial
  \/ MediaStep
  \/ EngineStep
  \/ FetchStep
  \/ PollWake
  \/ CalleeAnswers
  \/ PushAnswer
  \/ PushCandidate

SpecRedial == InitRedial /\ [][NextRedial]_vars

\* ------------------------------------------- calls with the mute control
InitMute ==
  InitWith(Quota(MaxDials, 0, 0, 0, MaxEnds, 0, MaxOffers, 0, 0, 0,
                 MaxMuteEvents))

NextMute ==
  \/ InitWebRTC
  \/ Dial
  \/ MediaStep
  \/ EngineStep
  \/ PushOffer
  \/ ToggleMute
  \/ EndCall

SpecMute == InitMute /\ [][NextMute]_vars

\* =============================================================== properties
\* Helpers of the properties below.
PeerIds == 1..Len(peers)

\* Candidates are numbered in the order the relay delivers them, and
\* relay.cands[k] is the call of candidate k: the candidates of one call
\* stand in seq in their arrival order, none twice.
InArrivalOrder(seq) ==
  \A i, j \in 1..Len(seq) :
    (i < j /\ relay.cands[seq[i]] = relay.cands[seq[j]]) => seq[i] < seq[j]

Elems(seq) == { seq[i] : i \in 1..Len(seq) }

Queued == { queuedIceCandidates[i].candidate : i \in 1..Len(queuedIceCandidates) }

\* The candidates a suspended drain still holds in its local list.
Held(t) == IF tasks[t].at = "drain"
             THEN { tasks[t].list[i].candidate : i \in 1..Len(tasks[t].list) }
             ELSE { }

\* A step in which the environment event of this kind happens.
Spent(what) == quota'[what] < quota[what]

\* ------------------------------------------------------------------- C1
\* C1 (as stated): for an outbound call whose Answer is delivered more than
\* once, setRemoteDescription is invoked with an Answer at most once on the
\* call's session.
C1InvokedAtMostOnce == \A p \in PeerIds : peers[p].sraInvoked <= 1

\* C1 (amended): on the session a dial created, setRemoteDescription may be
\* invoked with the Answer more than once, but every invocation is made
\* while the session's signalingState is have-local-offer, and the engine
\* applies an Answer to the session at most once.
C1AppliedAtMostOnce ==
  [][ \A p \in PeerIds :
        peers[p].role = "caller" =>
          /\ peers'[p].sraInvoked > peers[p].sraInvoked
               => peers[p].sig = "have-local-offer"
          /\ peers'[p].sraApplied <= 1 ]_vars

\* The Answer was handed to the engine twice, applied once, and the call is
\* answered.
C1Witness ==
  \E p \in PeerIds :
    /\ peers[p].sraInvoked >= 2 /\ peers[p].sraApplied = 1
    /\ pc = p /\ currentCallState = "answered"

\* ------------------------------------------------------------------- C2
\* C2: for every call, onCallStateChange('answered') and
\* onCallActiveChange(true, ...) each fire at most once, however the
\* call-state event, the push Answer and the polled Answer interleave.
C2AnsweredOnce ==
  \A c \in CallIds : ui.nAnswered[c] <= 1 /\ ui.nActive[c] <= 1

\* ------------------------------------------------------------------- C3
\* C3: a Candidate delivered for the active call while no remote description
\* is established (the session may not exist yet) is in the queue after its
\* delivery.
C3Retained ==
  [][ ( /\ Len(relay'.cands) > Len(relay.cands)
        /\ activeCallUUID = relay'.cands[Len(relay'.cands)]
        /\ (pc = 0 \/ ~peers[pc].remote) )
      => Len(relay'.cands) \in
           { queuedIceCandidates'[i].candidate :
               i \in 1..Len(queuedIceCandidates') } ]_vars

\* ------------------------------------------------------------------- C4
\* C4: candidates leave the queue when they are handed to the engine, each
\* session receives the queued candidates in arrival order and none twice,
\* none is handed to two sessions or held by two drains, and in the step
\* that establishes the remote description of the current session for
\* call C (the call of the handler that set it) every candidate queued for
\* C leaves the queue for the engine or for the drain's list.
C4DrainInOrderOnce ==
  /\ [](/\ \A p \in PeerIds : InArrivalOrder(peers[p].drained)
        /\ \A p, q \in PeerIds :
             p # q => Elems(peers[p].drained) \cap Elems(peers[q].drained) = { }
        /\ \A p \in PeerIds : Elems(peers[p].drained) \cap Queued = { }
        /\ \A t \in TaskIds :
             /\ Held(t) \cap Queued = { }
             /\ \A p \in PeerIds : Held(t) \cap Elems(peers[p].drained) = { }
             /\ \A u \in TaskIds : u # t => Held(t) \cap Held(u) = { })
  /\ [][ \A p \in PeerIds :
           (~peers[p].remote /\ peers'[p].remote /\ pc' = p)
           => \A i \in 1..Len(queuedIceCandidates) :
                queuedIceCandidates[i].callId
                    = tasks[Head(peers[p].chain).tid].callId
                => /\ queuedIceCandidates[i].candidate \notin
                        { queuedIceCandidates'[k].candidate :
                            k \in 1..Len(queuedIceCandidates') }
                   /\ \/ queuedIceCandidates[i].candidate
                           \in Elems(peers'[p].drained)
                      \/ \E t \in TaskIds :
                           /\ tasks'[t].at = "drain"
                           /\ queuedIceCandidates[i].candidate \in
                                { tasks'[t].list[k].candidate :
                                    k \in 1..Len(tasks'[t].list) } ]_vars

\* Two candidates were queued, and the session has received and applied
\* both in their arrival order.
C4Witness ==
  \E p \in PeerIds :
    /\ peers[p].drained = << 1, 2 >> /\ peers[p].applied = << 1, 2 >>
    /\ queuedIceCandidates = << >>

C6DialFromAnswered ==
  [][ (Spent("dial") /\ currentCallState = "answered" /\ pc # 0)
      => currentCallState' = "calling" ]_vars

\* ------------------------------------------------------------------- C7
\* C7: once the relay holds the Answer of the outbound call while the poll
\* loop of that call, running on the call's session, is in the sleep before
\* the last of its 30 attempts, CallState eventually is answered with the
\* start time set.
C7PollReachesAnswered ==
  \A c \in CallIds :
    ( /\ relay.answer[c] /\ activeCallUUID = c /\ pc # 0
      /\ \E u \in TaskIds : /\ tasks[u].kind = "poll" /\ tasks[u].callId = c
                            /\ tasks[u].peer = pc /\ tasks[u].at = "sleep"
                            /\ tasks[u].i = PollAttempts - 1 )
    ~> (currentCallState = "answered" /\ activeCallStartedAt # 0)

\* ------------------------------------------------------------------- C8
\* C8: when nothing fails, CallState leaves ended or rejected only in the
\* step of the grace timer.
C8KeptUntilGrace ==
  [][ ( /\ currentCallState \in { "ended", "rejected" }
        /\ currentCallState' # currentCallState
        /\ ~Spent("fault") )
      => graceTimers' < graceTimers ]_vars

\* ------------------------------------------------------------------- C9
\* C9: reject() on a ringing call sends the relay one end request with
\* reason 'rejected' and leaves CallState rejected; from rejected the state
\* eventually is idle with callerName null and no active call id.
C9RejectNotifiesThenIdle ==
  /\ [][ (Spent("reject") /\ currentCallState = "ringing")
         => /\ \E c \in CallIds : relay'.rejects[c] = relay.rejects[c] + 1
            /\ currentCallState' = "rejected" ]_vars
  /\ (currentCallState = "rejected")
       ~> (currentCallState = "idle" /\ callerName = 0 /\ activeCallUUID = 0)

\* An inbound call was rejected, the relay was told, and everything of the
\* call is gone.
C9Witness ==
  /\ \E c \in CallIds : calls[c] = "in" /\ relay.rejects[c] = 1
  /\ currentCallState = "idle" /\ callerName = 0 /\ activeCallUUID = 0
  /\ graceTimers = 0 /\ \A t \in TaskIds : tasks[t].kind # "reject"

\* ------------------------------------------------------------------ C10
\* C10: the continuation of a reject() sends no further end notification,
\* and no Answer is sent to the relay while CallState is answered.
C10OneSideEffect ==
  [][ /\ (\E t \in TaskIds : tasks[t].kind = "reject" /\ tasks'[t].kind # "reject")
           => relay'.ends = relay.ends
      /\ currentCallState = "answered" => relay'.answers = relay.answers ]_vars

\* ------------------------------------------------------------------ C11
\* A setup handler (dial, offer listener, answerCall) ends in the step in
\* which an awaited operation of its own failed.
SetupFailed ==
  /\ Spent("fault")
  /\ \E t \in TaskIds :
       /\ tasks[t].kind \in { "dial", "offer", "answerCall" }
       /\ tasks[t].at # "drain"
       /\ tasks'[t].kind = "free"

\* C11: when dial, answer() or the handling of an inbound Offer fails, no
\* engine session is left open and no local media track is left live.
C11TeardownOnFailure ==
  [][ SetupFailed
      => \A p \in 1..Len(peers') :
           peers'[p].sig = "closed" /\ peers'[p].mic # "live" ]_vars

\* ------------------------------------------------------------------ C12
\* C12: a dial that ends because an operation it awaited failed leaves
\* CallState idle and no active call id.
C12DialFailureIdle ==
  [][ ( /\ Spent("fault")
        /\ \E t \in TaskIds :
             /\ tasks[t].kind = "dial" /\ tasks[t].at # "drain"
             /\ tasks'[t].kind = "free" )
      => currentCallState' = "idle" /\ activeCallUUID' = 0 ]_vars

\* ------------------------------------------------------------------ C13
\* C13: at most one engine session is open and at most one local media
\* stream is live at any moment, and the open session and the live stream
\* are the ones the module refers to (so that teardown releases them).
C13OneSessionLive ==
  /\ \A p \in PeerIds : peers[p].sig # "closed" => pc = p
  /\ \A p \in PeerIds : peers[p].mic = "live" => localStream = p

\* ------------------------------------------------------------------ C14
\* C14: answerCall or rejectCall invoked while CallState is idle, calling or
\* answered changes no call state, invokes nothing on a session, fires no
\* callback and sends nothing to the relay.
C14NoOpUnlessRinging ==
  [][ ( /\ Spent("answer") \/ Spent("reject")
        /\ currentCallState \in { "idle", "calling", "answered" } )
      => /\ currentCallState' = currentCallState
         /\ activeCallUUID' = activeCallUUID
         /\ activeCallStartedAt' = activeCallStartedAt
         /\ callerName' = callerName
         /\ pc' = pc /\ peers' = peers
         /\ localStream' = localStream /\ remoteStream' = remoteStream
         /\ queuedIceCandidates' = queuedIceCandidates
         /\ ui' = ui /\ relay' = relay ]_vars

\* ------------------------------------------------------------------ C15
\* C15: a dial before initialization changes nothing: no call state, no
\* session, no task started, no callback and no relay request.
C15DialUninitialized ==
  [][ (Spent("dial") /\ ~isVoipInitialized)
      => /\ currentCallState' = currentCallState
         /\ activeCallUUID' = activeCallUUID
         /\ callerName' = callerName
         /\ pc' = pc /\ peers' = peers /\ localStream' = localStream
         /\ tasks' = tasks /\ calls' = calls
         /\ ui' = ui /\ relay' = relay ]_vars

\* A dial was attempted and the client is not initialized.
C15Witness ==
  /\ ~isVoipInitialized /\ quota.dial < MaxDials
  /\ currentCallState = "idle" /\ activeCallUUID = 0
  /\ \A c \in CallIds : calls[c] = "none"

\* ------------------------------------------------------------------ C16
\* C16: pressing the call button of the local user creates no call: the call
\* state, the call ids, the sessions and the relay stay as they were and no
\* handler is started.
C16SelfDialNoCall ==
  [][ Spent("self")
      => /\ currentCallState' = currentCallState
         /\ activeCallUUID' = activeCallUUID
         /\ callerName' = callerName
         /\ calls' = calls /\ tasks' = tasks
         /\ pc' = pc /\ peers' = peers /\ localStream' = localStream
         /\ ui' = ui /\ relay' = relay ]_vars

\* The local user was dialled and no call exists.
C16Witness ==
  /\ isVoipInitialized /\ quota.self < MaxSelfDials
  /\ currentCallState = "idle" /\ activeCallUUID = 0
  /\ \A c \in CallIds : calls[c] = "none"

\* ------------------------------------------------------------------ C17
\* The step is the delivery of call-state `st` for call c.
CallStateEvent(c, st) ==
  /\ isVoipInitialized
  /\ calls[c] # "none"
  /\ calls[c] = "out" => relay.offered[c]
  /\ Can("cstate")
  /\ Set(callStateHandler(Spend(Cur, "cstate"), c, st, "outgoing"))

\* C17: call-state ended or rejected for a call other than the active one
\* leaves CallState, the active call and its session as they are.
C17ForeignEndDiscarded ==
  [][ \A c \in CallIds, st \in { "ended", "rejected" } :
        ( /\ activeCallUUID # 0 /\ c # activeCallUUID
          /\ CallStateEvent(c, st) )
        => /\ currentCallState' = currentCallState
           /\ activeCallUUID' = activeCallUUID
           /\ pc' = pc /\ peers' = peers
           /\ localStream' = localStream ]_vars

\* ------------------------------------------------------------------ C18
\* The step is the delivery of the push 'answer' event for call c.
AnswerEvent(c) ==
  /\ isVoipInitialized /\ relay.answer[c]
  /\ Can("push") /\ HasFree(Cur, 1)
  /\ Set(onAnswerAll(answerHandler(Spend(Cur, "push"), c),
                     { t \in TaskIds : tasks[t].kind = "dial" /\ tasks[t].lis },
                     c))

\* The step is the delivery of a Candidate for call c.
CandidateEvent(c) ==
  /\ isVoipInitialized /\ calls[c] # "none"
  /\ calls[c] = "out" => relay.offered[c]
  /\ Can("cand")
  /\ Set(iceCandidateHandler(
           [ Spend(Cur, "cand") EXCEPT !.relay.cands = Append(@, c) ],
           c, Len(relay.cands) + 1))

\* C18: an Answer or a Candidate for a call other than the active one leaves
\* CallState, the candidate queue, the start time and every session as they
\* are, and no callback fires.
C18ForeignIgnored ==
  [][ \A c \in CallIds :
        ( /\ activeCallUUID # 0 /\ c # activeCallUUID
          /\ AnswerEvent(c) \/ CandidateEvent(c) )
        => /\ currentCallState' = currentCallState
           /\ queuedIceCandidates' = queuedIceCandidates
           /\ activeCallStartedAt' = activeCallStartedAt
           /\ peers' = peers /\ ui' = ui ]_vars

\* ------------------------------------------------------------------ C19
\* C19: a start time that is set keeps its value until teardown clears it,
\* and a step that makes or finds CallState answered leaves a start time set.
C19StartTimeKept ==
  [][ /\ activeCallStartedAt # 0
         => activeCallStartedAt' \in { activeCallStartedAt, 0 }
      /\ (ui'.nAnswered # ui.nAnswered /\ currentCallState' = "answered")
         => activeCallStartedAt' # 0 ]_vars

\* ------------------------------------------------------------------ C20
\* C20: no invocation of onCallStateChange reports the state that the
\* invocation before it reported.
C20NoRepeatedNotification == ~ui.repeated

\* ------------------------------------------------------------------ C21
\* The step is the 30 s timer of the dial in task t firing.
AnswerTimeoutOf(t) ==
  /\ tasks[t].kind = "dial" /\ tasks[t].tmo
  /\ ~\E u \in TaskIds :
        /\ tasks[u].kind = "poll" /\ tasks[u].par = t
        /\ tasks[u].callId = tasks[t].callId
        /\ tasks[u].at = "sleep" /\ tasks[u].i < PollAttempts - 1
  /\ Set(dialCatch(Cur, t))

\* C21: when the answer-wait timer fires, the state callback reports ended
\* (as the last report, or as the one before the idle of the teardown) and
\* the session and the local stream are released.
C21TimeoutEnded ==
  [][ \A t \in TaskIds :
        AnswerTimeoutOf(t)
        => /\ ui'.last = "ended" \/ ui'.prev = "ended"
           /\ pc' = 0 /\ localStream' = 0 ]_vars

\* ------------------------------------------------------------------ C22
\* The candidates handed to session p through addIceCandidate: those the
\* engine has applied and those whose call is pending.
HandedTo(p) ==
  peers[p].applied
    \o [ k \in 1..Len(SelectSeq(peers[p].chain,
                                LAMBDA e : e.op = "addIceCandidate")) |->
           SelectSeq(peers[p].chain,
                     LAMBDA e : e.op = "addIceCandidate")[k].arg ]

\* C22: no candidate is handed to a session twice.
C22CandidateOnce ==
  \A p \in PeerIds :
    \A i, j \in 1..Len(HandedTo(p)) :
      i # j => HandedTo(p)[i] # HandedTo(p)[j]


\* ------------------------------------------------------------------ C23
\* C23: the answer timeout of an outbound call that is already answered
\* leaves the call as it is.
C23AnsweredOutlivesTimeout ==
  [][ \A t \in TaskIds :
        /\ AnswerTimeoutOf(t)
        /\ currentCallState = "answered"
        /\ activeCallUUID = tasks[t].callId /\ pc = tasks[t].peer
        => /\ pc' = pc /\ localStream' = localStream
           /\ currentCallState' = "answered"
           /\ activeCallUUID' = activeCallUUID ]_vars


\* ------------------------------------------------------------------ C24
\* C24: the answer timeout of an outbound call that is no longer the active
\* call leaves the call that is active as it is.
C24TimeoutSparesLaterCall ==
  [][ \A t \in TaskIds :
        /\ AnswerTimeoutOf(t)
        /\ activeCallUUID # 0 /\ activeCallUUID # tasks[t].callId
        => /\ pc' = pc /\ localStream' = localStream
           /\ currentCallState' = currentCallState
           /\ activeCallUUID' = activeCallUUID ]_vars


\* ------------------------------------------------------------------ C25
\* C25: an end notification sent in a step that closes a session names the
\* call that session was created for.
C25EndNamesTornDownCall ==
  [][ \A c \in CallIds :
        (relay'.ends[c] > relay.ends[c] /\ pc # 0 /\ pc' # pc)
        => peers[pc].call = c ]_vars


\* ------------------------------------------------------------------ C26
\* C26: the grace timer of a reject, firing while a later call is active,
\* leaves that call's CallState, caller name and active id as they are.
C26GraceSparesLaterCall ==
  [][ (graceTimers' < graceTimers /\ activeCallUUID # 0)
      => /\ currentCallState' = currentCallState
         /\ callerName' = callerName
         /\ activeCallUUID' = activeCallUUID ]_vars


\* ------------------------------------------------------------------ C27
\* Task t is an answer handler: the global listener, the listener of
\* waitForAnswer past its first await, or the poll loop.
AnswerHandlerTask(t) ==
  \/ tasks[t].kind \in { "gAnswer", "poll" }
  \/ /\ tasks[t].kind = "dial"
     /\ \/ tasks[t].at = "oaSetRemote"
        \/ tasks[t].at = "drain" /\ tasks[t].ret = "onAnswerOk"

\* What the handlers of the service can change, the suspended handlers and
\* the environment's budget aside.
CallVars ==
  << pc, localStream, remoteStream, activeCallUUID, activeCallStartedAt,
     currentCallState, callerName, isMuted, queuedIceCandidates, peers,
     relay, ui, calls >>

PollFetched(t) ==
  /\ tasks[t].kind = "poll" /\ tasks[t].at = "fetch"
  /\ Set(Resume(Cur, t, "ok"))

\* The active call is c and its session already has the Answer applied.
AnswerAlreadySet(c) ==
  /\ pc # 0 /\ activeCallUUID = c
  /\ peers[pc].sig = "stable" /\ peers[pc].remote

\* The step hands an Answer for call c to a path that processes it: the
\* global listener (CallState calling or ringing), the listener of
\* waitForAnswer (registered for c on the current session), or the poll.
AnswerProcessed(c) ==
  \/ /\ AnswerEvent(c)
     /\ \/ currentCallState \in { "calling", "ringing" }
        \/ \E t \in TaskIds : /\ tasks[t].kind = "dial" /\ tasks[t].lis
                              /\ tasks[t].callId = c /\ tasks[t].peer = pc
  \/ \E t \in TaskIds : /\ PollFetched(t) /\ relay.answer[c]
                        /\ tasks[t].callId = c /\ tasks[t].peer = pc

\* C28: an Answer for the active call processed while the session already
\* has it applied sets answered, leaves no candidate of that call queued,
\* and is not handed to setRemoteDescription.
C28ReconcileWhenStable ==
  [][ \A c \in CallIds :
        (AnswerAlreadySet(c) /\ AnswerProcessed(c))
        => /\ currentCallState' = "answered"
           /\ \A k \in 1..Len(queuedIceCandidates') :
                 queuedIceCandidates'[k].callId # c
           /\ \A p \in PeerIds : peers'[p].sraInvoked = peers[p].sraInvoked ]_vars


\* ------------------------------------------------------------------ C29
\* The step is the engine rejecting, as called in the wrong state, the
\* Answer that heads the operations chain of session p.
AnswerRejected(p) ==
  /\ peers[p].chain # << >>
  /\ Head(peers[p].chain).op = "setRemoteAnswer"
  /\ ~Accepts(p, peers[p], "setRemoteAnswer", 0)
  /\ LET e  == Head(peers[p].chain)
         s1 == [ Cur EXCEPT !.peers[p].chain = Tail(@) ]
     IN  Set(IF e.tid = 0 THEN s1 ELSE Resume(s1, e.tid, "wrongstate"))

\* CallState is set to answered in this step (the callback reports it).
SetsAnswered ==
  \E c \in CallIds \cup { 0 } : ui'.nAnswered[c] > ui.nAnswered[c]

C30AnswerOnlyOnLocalOffer ==
  [][ \A p \in PeerIds :
        peers'[p].sraInvoked > peers[p].sraInvoked
        => peers[p].sig = "have-local-offer" ]_vars


\* ------------------------------------------------------------------ C31
\* The step is the end of a 1 s sleep of poll loop t.
PollWoke(t) ==
  /\ tasks[t].kind = "poll" /\ tasks[t].at = "sleep"
  /\ ~(tasks[t].i >= PollAttempts - 1 /\ TimeoutArmed(t))
  /\ Set(Resume(Cur, t, "ok"))

\* Poll loop t polls for the active call on the current session.
PollsActiveCall(t) ==
  /\ tasks[t].kind = "poll" /\ pc # 0
  /\ tasks[t].callId = activeCallUUID /\ tasks[t].peer = pc

\* C31: once CallState is answered for the call a poll loop polls for, the
\* loop starts no fetch and fires no callback.
C31PollCancelledOnAnswered ==
  [][ \A t \in TaskIds :
        (PollsActiveCall(t) /\ currentCallState = "answered")
        => /\ PollWoke(t) => tasks'[t].at # "fetch"
           /\ PollFetched(t) => ui' = ui ]_vars


\* ------------------------------------------------------------------ C32
\* The call of poll loop t has ceased to be active: the loop's session is
\* closed or is not the current one, or there is no active call.
PollStale(t) ==
  /\ tasks[t].kind = "poll"
  /\ \/ peers[tasks[t].peer].sig = "closed"
     \/ tasks[t].peer # pc
     \/ activeCallUUID = 0

\* C32: a poll loop is within its 30 attempts, and once its call has ceased
\* to be active it starts no fetch, hands no Answer to the engine and leaves
\* CallState as it is.
C32PollBoundedAndCancelled ==
  [][ \A t \in TaskIds :
        /\ tasks[t].kind = "poll" => tasks[t].i < PollAttempts
        /\ PollStale(t)
           => /\ PollWoke(t) => tasks'[t].at # "fetch"
              /\ (PollWoke(t) \/ PollFetched(t))
                 => /\ currentCallState' = currentCallState
                    /\ \A p \in PeerIds :
                          peers'[p].sraInvoked = peers[p].sraInvoked ]_vars


\* ------------------------------------------------------------------ C33
\* The step is the head of session p's operations chain settling, with or
\* without an engine fault.
EngineEvent(p, fault) ==
  /\ peers[p].chain # << >>
  /\ fault => Can("fault")
  /\ LET e   == Head(peers[p].chain)
         ok  == ~fault /\ Accepts(p, peers[p], e.op, e.arg)
         res == IF fault THEN "other" ELSE IF ok THEN "ok" ELSE "wrongstate"
         s0  == IF fault THEN Spend(Cur, "fault") ELSE Cur
         s1  == [ s0 EXCEPT !.peers[p] =
                    [ (IF ok THEN Apply(@, e.op, e.arg) ELSE @)
                        EXCEPT !.chain = Tail(@) ] ]
         s2  == IF ok /\ e.op \in { "setRemoteOffer", "setRemoteAnswer" }
                  THEN ontrack(s1, p) ELSE s1
     IN  Set(IF e.tid = 0 THEN s2 ELSE Resume(s2, e.tid, res))

\* In this step a drain completes on the current session p: the handler
\* whose remote description was just applied ran processQueuedIceCandidates
\* to its end, or the last addIceCandidate of a drain loop settled.
DrainCompleted(p, fault) ==
  LET e == Head(peers[p].chain)
  IN  /\ EngineEvent(p, fault)
      /\ p = pc /\ e.tid # 0
      /\ tasks'[e.tid].at # "drain"
      /\ \/ tasks[e.tid].at = "drain"
         \/ /\ e.op \in { "setRemoteOffer", "setRemoteAnswer" }
            /\ ~fault /\ Accepts(p, peers[p], e.op, e.arg)

\* C33: when a drain completes the candidate queue is empty.
C33QueueEmptyAfterDrain ==
  [][ \A p \in PeerIds, fault \in BOOLEAN :
        DrainCompleted(p, fault) => queuedIceCandidates' = << >> ]_vars


\* ------------------------------------------------------------------ C34
\* C34: while a session exists and a call is active, the session is the one
\* created for the active call.
C34SessionOfActiveCall ==
  (pc # 0 /\ activeCallUUID # 0) => peers[pc].call = activeCallUUID


\* ------------------------------------------------------------------ C35
\* C35: while no handler is suspended, CallState is idle exactly when there
\* is neither an active call id nor a session.
C35IdleIffNoCall ==
  (\A t \in TaskIds : tasks[t].kind = "free")
  => (currentCallState = "idle" <=> (activeCallUUID = 0 /\ pc = 0))


\* ------------------------------------------------------------------ C36
\* C36: call-state answered with no active call makes its call the active
\* one, answered, with the start time set; with another call active it
\* changes nothing.
C36AnsweredAdoptedOrIgnored ==
  [][ \A c \in CallIds :
        CallStateEvent(c, "answered")
        => /\ activeCallUUID = 0
              => /\ activeCallUUID' = c
                 /\ currentCallState' = "answered"
                 /\ activeCallStartedAt' # 0
                 /\ ui'.state = "answered" /\ ui'.active
           /\ (activeCallUUID # 0 /\ activeCallUUID # c)
              => UNCHANGED CallVars ]_vars

\* Call c is active and answered with no session and a start time, reported
\* right after idle, and no Answer ever went to an engine: the event was
\* taken up while no call was active.
C36Witness ==
  \E c \in CallIds :
    /\ activeCallUUID = c /\ currentCallState = "answered" /\ pc = 0
    /\ activeCallStartedAt # 0 /\ quota.cstate < MaxCallStates
    /\ ui.last = "answered" /\ ui.prev = "idle"
    /\ \A p \in PeerIds : peers[p].sraInvoked = 0


\* ------------------------------------------------------------------ C37
\* The step is the delivery of an Offer for call c that the listener takes
\* as an incoming call.
OfferEvent(c) ==
  /\ isVoipInitialized /\ Can("offer") /\ HasFree(Cur, 1)
  /\ pc = 0 \/ activeCallUUID # c
  /\ Set(offerHandler(Spend(Cur, "offer"), c))

\* No session has been asked for an Answer or given one as its local
\* description, and the relay has been sent none.
NoAnswerMade ==
  /\ \A c \in CallIds : relay.answers[c] = 0
  /\ \A p \in PeerIds :
        /\ peers[p].role = "callee" => ~peers[p].local
        /\ \A k \in 1..Len(peers[p].chain) :
              peers[p].chain[k].op \notin { "createAnswer", "setLocalAnswer" }

\* C37: until answerCall is invoked no Answer is created or sent, and the
\* delivery of an Offer leaves CallState ringing.
C37AnswerOnlyOnUserAnswer ==
  [][ /\ quota'.answer = MaxAnswerCalls => NoAnswerMade'
      /\ \A c \in CallIds : OfferEvent(c) => currentCallState' = "ringing" ]_vars


\* ------------------------------------------------------------------ C38
\* The state after the head of session p's chain settles, the engine
\* applying it (ok) or not, with an engine fault or without.
Settled(p, fault, ok) ==
  LET e   == Head(peers[p].chain)
      res == IF fault THEN "other" ELSE IF ok THEN "ok" ELSE "wrongstate"
      s0  == IF fault THEN Spend(Cur, "fault") ELSE Cur
      s1  == [ s0 EXCEPT !.peers[p] =
                 [ (IF ok THEN Apply(@, e.op, e.arg) ELSE @)
                     EXCEPT !.chain = Tail(@) ] ]
  IN  IF e.tid = 0 THEN s1 ELSE Resume(s1, e.tid, res)

\* The step is the engine failing the addIceCandidate that heads the chain
\* of session p.
CandidateFailed(p, fault) ==
  /\ peers[p].chain # << >>
  /\ Head(peers[p].chain).op = "addIceCandidate"
  /\ fault => Can("fault")
  /\ fault \/ ~Accepts(p, peers[p], "addIceCandidate", 0)
  /\ Set(Settled(p, fault, FALSE))

\* C38: when the engine fails a candidate, everything goes on as if it had
\* been applied, the candidate itself aside: the drain hands the remaining
\* entries to the engine in order and the handler continues; a candidate
\* applied on arrival changes nothing else.
C38CandidateErrorAbsorbed ==
  [][ \A p \in PeerIds, fault \in BOOLEAN :
        CandidateFailed(p, fault)
        => /\ Settled(p, fault, FALSE)
                = [ Settled(p, FALSE, TRUE) EXCEPT
                      !.peers[p].applied = peers[p].applied,
                      !.quota = Settled(p, fault, FALSE).quota ]
           /\ Head(peers[p].chain).tid = 0
              => UNCHANGED << pc, localStream, remoteStream, activeCallUUID,
                              activeCallStartedAt, currentCallState,
                              callerName, queuedIceCandidates, tasks, ui >> ]_vars

\* A drain of two candidates in which the engine failed the first and
\* applied the second.
C38Witness ==
  \E p \in PeerIds :
    /\ Len(peers[p].drained) = 2
    /\ peers[p].applied = << peers[p].drained[2] >>
    /\ peers[p].chain = << >>
    /\ quota.fault < MaxFaults


\* ------------------------------------------------------------------ C39
\* C39: while a local stream exists, isMuted is the negation of the
\* enabled flag of its audio track.
C39MuteFlagMatchesTrack ==
  localStream # 0 => (isMuted <=> ~peers[localStream].enabled)

====
